---- MODULE Spec2Model ----
(***************************************************************************)
(* A model of package parsenv (src/parsenv.go): Load populates the fields  *)
(* of a struct from the process environment, steered by the `cfg` struct   *)
(* tag of each field.                                                      *)
(*                                                                         *)
(* Go strings are modelled as sequences of one-character strings ([]rune), *)
(* so that splitting, case conversion and number parsing are computed      *)
(* character by character as the code does.                                *)
(***************************************************************************)
EXTENDS Integers, Sequences, FiniteSets, TLC

VARIABLES
    fields,     \* the struct type passed to Load: reflect.VisibleFields, in declaration order
    cfg,        \* the struct value behind the pointer: cfg[i] is the value of field i
    env,        \* the process environment: name -> value, or Unset
    goJoin,     \* which errors.Join the toolchain links (see Join)
    pc,         \* "idle" | "loop" | "returned" | "panicked" | "case" | "case done" | "tag" | "tag done"
    idx,        \* Load's position in the loop over the fields
    err,        \* Load's named result err while the loop runs
    ret,        \* what the last finished call of Load returned
    calls,      \* number of calls of Load so far
    setenvs,    \* number of calls of os.Setenv so far
    cfg0,       \* the struct value when the running (or last) call of Load began
    arg,        \* what the running (or last) call of Load was passed: "*struct" | "struct" | "*int"
    panicVal,   \* the value the last call of Load panicked with, "none" when it did not
    prev,       \* the call of Load before the running (or last) one: [arg, pc, idx, cfg, ret, panicVal]
    input,      \* argument of the pure function under check (changeNameCase, parseTag)
    output      \* its result

vars == <<fields, cfg, env, goJoin, pc, idx, err, ret, calls, setenvs, cfg0, arg, panicVal,
         prev, input, output>>

(***************************************************************************)
(* Bounds of the model.                                                    *)
(***************************************************************************)
MaxIdentLen == 4     \* longest enumerated identifier given to changeNameCase
MaxTagChunks == 5    \* most lexemes of an enumerated struct tag given to parseTag
MaxSetenv == 2       \* most calls of os.Setenv before Load
MaxCalls == 2        \* most calls of Load on the same struct

(***************************************************************************)
(* Runes: package unicode on the ASCII letters the model uses.             *)
(***************************************************************************)
LowerRunes == <<"a","b","c","d","e","f","g","h","i","j","k","l","m",
                "n","o","p","q","r","s","t","u","v","w","x","y","z">>
UpperRunes == <<"A","B","C","D","E","F","G","H","I","J","K","L","M",
                "N","O","P","Q","R","S","T","U","V","W","X","Y","Z">>

\* unicode.IsLower
IsLower(r) == \E i \in 1..Len(LowerRunes) : LowerRunes[i] = r

\* unicode.IsUpper
IsUpper(r) == \E i \in 1..Len(UpperRunes) : UpperRunes[i] = r

\* unicode.ToUpper: the upper-case rune of a lower-case letter, any other rune itself
ToUpper(r) ==
    IF IsLower(r)
    THEN UpperRunes[CHOOSE i \in 1..Len(LowerRunes) : LowerRunes[i] = r]
    ELSE r

\* runes[s:e] of Go, with Go's 0-based half-open indices
Slice(runes, s, e) == [k \in 1..(e - s) |-> runes[s + k]]

(***************************************************************************)
(* changeNameCase (src/parsenv.go:230-251).                                *)
(***************************************************************************)
\* CaseChangeIdxs with a plausible bug: a boundary before every upper-case rune
RECURSIVE CaseChangeIdxsAnyUpper(_, _, _)
CaseChangeIdxsAnyUpper(runes, i, acc) ==
    IF i > Len(runes) - 2 THEN acc
    ELSE IF IsUpper(runes[i + 2])
         THEN CaseChangeIdxsAnyUpper(runes, i + 1, Append(acc, i + 1))
         ELSE CaseChangeIdxsAnyUpper(runes, i + 1, acc)

\* The first loop: caseChangeIdxs after the indices i..len(runes)-2 were visited,
\* starting from the list acc.  i is Go's 0-based index.
RECURSIVE CaseChangeIdxs(_, _, _)
CaseChangeIdxs(runes, i, acc) ==
    IF i > Len(runes) - 2 THEN acc
    ELSE IF IsLower(runes[i + 1]) /\ IsUpper(runes[i + 2])
         THEN CaseChangeIdxs(runes, i + 1, Append(acc, i + 1))
         ELSE CaseChangeIdxs(runes, i + 1, acc)

\* WriteRune(unicode.ToUpper(r)) for every r of a slice
UpperAll(runes) == [k \in 1..Len(runes) |-> ToUpper(runes[k])]

\* The second loop: the builder after the segments i.. of caseChangeIdxs[1:]
\* were written, each followed by '_'.  i is Go's 0-based index.
RECURSIVE WriteSegments(_, _, _, _)
WriteSegments(runes, idxs, i, builder) ==
    IF i > Len(idxs) - 2 THEN builder
    ELSE WriteSegments(runes, idxs, i + 1,
            builder \o UpperAll(Slice(runes, idxs[i + 1], idxs[i + 2])) \o <<"_">>)

\* changeNameCase of a non-empty name (runes[1:] of an empty name is out of range)
changeNameCase(name) ==
    LET idxs == CaseChangeIdxs(name, 0, <<0>>)
        head == WriteSegments(name, idxs, 0, <<>>)
    IN  head \o UpperAll(Slice(name, idxs[Len(idxs)], Len(name)))

(***************************************************************************)
(* parseTag (src/parsenv.go:196-228).                                      *)
(***************************************************************************)
\* strings.Split(s, sep) for a one-rune separator: the pieces of s between the
\* separators, n separators giving n+1 pieces.  k is the next position to read,
\* cur the piece being read, acc the pieces done.
RECURSIVE SplitFrom(_, _, _, _, _)
SplitFrom(s, sep, k, cur, acc) ==
    IF k > Len(s) THEN Append(acc, cur)
    ELSE IF s[k] = sep
         THEN SplitFrom(s, sep, k + 1, <<>>, Append(acc, cur))
         ELSE SplitFrom(s, sep, k + 1, Append(cur, s[k]), acc)

Split(s, sep) == SplitFrom(s, sep, 1, <<>>, <<>>)

\* The string literals of parseTag
StrIgnore == <<"-">>
StrRequired == <<"r","e","q","u","i","r","e","d">>
StrName == <<"n","a","m","e">>
StrDefault == <<"d","e","f","a","u","l","t">>

\* The zero TagData
ZeroTagData == [Name |-> <<>>, Default |-> <<>>, Required |-> FALSE, Ignored |-> FALSE]

\* parseProperty with a plausible bug: the property is cut at its first "="
\* only (strings.SplitN(rawProperty, "=", 2)), so a value may hold "="
parsePropertyFirstEq(td, rawProperty) ==
    LET eqs == {k \in 1..Len(rawProperty) : rawProperty[k] = "="}
        cut == CHOOSE k \in eqs : \A j \in eqs : k <= j
        key == SubSeq(rawProperty, 1, cut - 1)
        val == SubSeq(rawProperty, cut + 1, Len(rawProperty))
    IN  IF eqs = {}
        THEN [panic |-> "none",
              td |-> IF rawProperty = StrIgnore THEN [td EXCEPT !.Ignored = TRUE]
                     ELSE IF rawProperty = StrRequired THEN [td EXCEPT !.Required = TRUE]
                     ELSE td]
        ELSE IF key = StrName THEN [panic |-> "none", td |-> [td EXCEPT !.Name = val]]
        ELSE IF key = StrDefault THEN [panic |-> "none", td |-> [td EXCEPT !.Default = val]]
        ELSE [panic |-> "unknown property", td |-> td]

\* One iteration of the loop over rawParts: td after rawProperty, or the panic
parseProperty(td, rawProperty) ==
    LET propertyParts == Split(rawProperty, "=")
    IN  IF Len(propertyParts) = 1
        THEN [panic |-> "none",
              td |-> IF propertyParts[1] = StrIgnore THEN [td EXCEPT !.Ignored = TRUE]
                     ELSE IF propertyParts[1] = StrRequired THEN [td EXCEPT !.Required = TRUE]
                     ELSE td]
        ELSE IF Len(propertyParts) = 2
        THEN IF propertyParts[1] = StrName
             THEN [panic |-> "none", td |-> [td EXCEPT !.Name = propertyParts[2]]]
             ELSE IF propertyParts[1] = StrDefault
             THEN [panic |-> "none", td |-> [td EXCEPT !.Default = propertyParts[2]]]
             ELSE [panic |-> "unknown property", td |-> td]
        ELSE [panic |-> "invalid format", td |-> td]

\* The loop over rawParts from part k on; a panic ends it
RECURSIVE parseParts(_, _, _)
parseParts(rawParts, k, td) ==
    IF k > Len(rawParts) THEN [panic |-> "none", td |-> td]
    ELSE LET r == parseProperty(td, rawParts[k])
         IN  IF r.panic # "none" THEN r
             ELSE parseParts(rawParts, k + 1, r.td)

\* parseTag: [panic |-> "none", td |-> the TagData], or the panic it raises
parseTag(rawTag) ==
    IF rawTag = <<>> THEN [panic |-> "none", td |-> ZeroTagData]
    ELSE parseParts(Split(rawTag, ";"), 1, ZeroTagData)

(***************************************************************************)
(* parseValue (src/parsenv.go:253-264) and the strconv functions it calls. *)
(* A value of type any is [t |-> its dynamic type, v |-> the value]; a     *)
(* float64 is kept as <<m, e>>, the decimal m * 10^(-e) with m not a       *)
(* multiple of 10 unless e = 0.                                            *)
(***************************************************************************)
\* The nil error
Nil == [kind |-> "nil"]

DigitRunes == <<"0","1","2","3","4","5","6","7","8","9">>

IsDigit(ch) == \E d \in 1..Len(DigitRunes) : DigitRunes[d] = ch

\* ch - '0'
DigitVal(ch) == (CHOOSE d \in 1..Len(DigitRunes) : DigitRunes[d] = ch) - 1

\* strconv's *NumError with Err = ErrSyntax
syntaxError(fn, str) == [kind |-> "NumError", Func |-> fn, Num |-> str, Err |-> "invalid syntax"]

\* The digit loop of Atoi: n after the bytes k.. of s, or -1 at a byte that is no digit
RECURSIVE AtoiDigits(_, _, _)
AtoiDigits(s, k, n) ==
    IF k > Len(s) THEN n
    ELSE IF ~IsDigit(s[k]) THEN -1
         ELSE AtoiDigits(s, k + 1, n * 10 + DigitVal(s[k]))

\* strconv.Atoi on a non-empty string of fewer than 19 bytes (its fast path)
Atoi(s0) ==
    LET signed == s0[1] = "-" \/ s0[1] = "+"
        s == IF signed THEN Tail(s0) ELSE s0
        n == AtoiDigits(s, 1, 0)
    IN  IF Len(s) < 1 \/ n = -1
        THEN [val |-> [t |-> "int", v |-> 0], err |-> syntaxError("Atoi", s0)]
        ELSE [val |-> [t |-> "int", v |-> IF s0[1] = "-" THEN -n ELSE n], err |-> Nil]

\* The mantissa loop of strconv's readFloat from byte k on: digits and at most
\* one '.'; it stops at the first other byte.
\* st = [m |-> mantissa, e |-> digits after the point, dot |-> saw '.',
\*       digits |-> saw a digit, k |-> first byte not read]
RECURSIVE ReadMantissa(_, _)
ReadMantissa(s, st) ==
    IF st.k > Len(s) THEN st
    ELSE LET ch == s[st.k]
         IN  IF ch = "." /\ ~st.dot
             THEN ReadMantissa(s, [st EXCEPT !.dot = TRUE, !.k = @ + 1])
             ELSE IF IsDigit(ch)
             THEN ReadMantissa(s, [st EXCEPT !.m = @ * 10 + DigitVal(ch),
                                             !.e = IF st.dot THEN @ + 1 ELSE @,
                                             !.digits = TRUE, !.k = @ + 1])
             ELSE st

\* <<m, e>> with the trailing zeros of the fraction removed
RECURSIVE Normalize(_, _)
Normalize(m, e) ==
    IF e > 0 /\ m % 10 = 0 THEN Normalize(m \div 10, e - 1) ELSE <<m, e>>

\* strconv.ParseFloat(s, 64) on a decimal without exponent, base prefix,
\* underscore, "inf" or "nan" (the inputs of the model hold none): every byte
\* must be read and a digit seen, else ErrSyntax with the value 0.
ParseFloat(s0) ==
    LET signed == s0[1] = "-" \/ s0[1] = "+"
        s == IF signed THEN Tail(s0) ELSE s0
        st == ReadMantissa(s, [m |-> 0, e |-> 0, dot |-> FALSE, digits |-> FALSE, k |-> 1])
        mag == Normalize(st.m, st.e)
    IN  IF ~st.digits \/ st.k <= Len(s)
        THEN [val |-> [t |-> "float64", v |-> <<0, 0>>], err |-> syntaxError("ParseFloat", s0)]
        ELSE [val |-> [t |-> "float64",
                       v |-> IF s0[1] = "-" THEN <<0 - mag[1], mag[2]>> ELSE mag],
              err |-> Nil]

\* parseValue with a plausible bug: a kind without a case is taken as a string
parseValueLenient(kind, val) ==
    IF kind = "int" THEN [panic |-> FALSE] @@ Atoi(val)
    ELSE IF kind = "float64" THEN [panic |-> FALSE] @@ ParseFloat(val)
    ELSE [panic |-> FALSE, val |-> [t |-> "string", v |-> val], err |-> Nil]

\* parseValue: [panic, val, err]; any kind but string, int and float64 panics
parseValue(kind, val) ==
    IF kind = "string" THEN [panic |-> FALSE, val |-> [t |-> "string", v |-> val], err |-> Nil]
    ELSE IF kind = "int" THEN [panic |-> FALSE] @@ Atoi(val)
    ELSE IF kind = "float64" THEN [panic |-> FALSE] @@ ParseFloat(val)
    ELSE [panic |-> TRUE, val |-> Nil, err |-> Nil]

(***************************************************************************)
(* errors.Join as Load calls it (src/parsenv.go:182,186,189).              *)
(***************************************************************************)
\* errors.Join(a, b): nil when both are nil, else a new joinError holding the
\* non-nil ones in order.  Toolchains differ in one case, which goJoin names:
\* with "reuse", a single non-nil argument that already is a joinError is
\* returned as it is; with "wrap", it is wrapped in a new joinError.
Join(a, b, variant) ==
    LET errs == SelectSeq(<<a, b>>, LAMBDA e : e # Nil)
    IN  IF Len(errs) = 0 THEN Nil
        ELSE IF Len(errs) = 1 /\ variant = "reuse" /\ errs[1].kind = "joinError" THEN errs[1]
        ELSE [kind |-> "joinError", errs |-> errs]

\* Unwrap() []error of a joinError
Unwrap(e) == e.errs

\* fmt.Errorf("missing env value for required field: %s", field.Name)
MissingError(name) == [kind |-> "missing env value for required field", field |-> name]

(***************************************************************************)
(* Load (src/parsenv.go:165-194).                                          *)
(***************************************************************************)
\* os.Getenv: the value of the variable, "" when it is not set
Getenv(e, key) == IF key \in DOMAIN e THEN e[key] ELSE <<>>

\* errAtEntry with a plausible bug: err is a variable of the package, so a call
\* starts with what the call before returned
errAtEntryStale == ret

\* The value of the named result err when Load is entered
errAtEntry == Nil

\* The value and error parseValue gives for a non-empty string, joined and
\* written (lines 181-183 and 185-187): the field is set to optVal whatever perr is
coerceAndSet(kind, str, olderr, variant) ==
    LET pv == parseValue(kind, str)
    IN  IF pv.panic
        THEN [panic |-> "unsupported type", written |-> FALSE, val |-> Nil, err |-> olderr]
        ELSE [panic |-> "none", written |-> TRUE, val |-> pv.val,
              err |-> Join(olderr, pv.err, variant)]

\* resolveName with a plausible bug: the name the tag gives is not used
resolveNameDerived(td, derived) == derived

\* The name the value is looked up under (lines 172-176): the name the tag
\* gives, if any, instead of the derived one
resolveName(td, derived) == IF td.Name # <<>> THEN td.Name ELSE derived

\* loadField with a plausible bug: td.Required is tested before td.Default, so a
\* required field whose variable is missing is an error whatever its default
loadFieldRequiredFirst(field, olderr, e, variant) ==
    LET tag == parseTag(field.Tag)
        td == tag.td
        strVal == Getenv(e, resolveName(td, changeNameCase(field.Name)))
        skip == [panic |-> "none", written |-> FALSE, val |-> Nil, err |-> olderr]
    IN  IF tag.panic # "none"
        THEN [panic |-> tag.panic, written |-> FALSE, val |-> Nil, err |-> olderr]
        ELSE IF td.Ignored THEN skip
        ELSE IF strVal # <<>> THEN coerceAndSet(field.Kind, strVal, olderr, variant)
        ELSE IF td.Required
        THEN [skip EXCEPT !.err = Join(olderr, MissingError(field.Name), variant)]
        ELSE IF td.Default # <<>> THEN coerceAndSet(field.Kind, td.Default, olderr, variant)
        ELSE skip

\* loadField with a plausible bug: td.Ignored is tested last, so that "-" only
\* spares a field the missing-required error
loadFieldIgnoredLast(field, olderr, e, variant) ==
    LET tag == parseTag(field.Tag)
        td == tag.td
        strVal == Getenv(e, resolveName(td, changeNameCase(field.Name)))
        skip == [panic |-> "none", written |-> FALSE, val |-> Nil, err |-> olderr]
    IN  IF tag.panic # "none"
        THEN [panic |-> tag.panic, written |-> FALSE, val |-> Nil, err |-> olderr]
        ELSE IF strVal # <<>> THEN coerceAndSet(field.Kind, strVal, olderr, variant)
        ELSE IF td.Default # <<>> THEN coerceAndSet(field.Kind, td.Default, olderr, variant)
        ELSE IF td.Ignored THEN skip
        ELSE IF td.Required
        THEN [skip EXCEPT !.err = Join(olderr, MissingError(field.Name), variant)]
        ELSE skip

\* loadField, but a malformed tag is passed over as an empty tag is
loadFieldBadTagSkipped(field, olderr, e, variant) ==
    LET derived == changeNameCase(field.Name)
        tag == parseTag(field.Tag)
        td == tag.td
        optionName == resolveName(td, derived)
        strVal == Getenv(e, optionName)
        skip == [panic |-> "none", written |-> FALSE, val |-> Nil, err |-> olderr]
    IN  IF tag.panic # "none" THEN skip
        ELSE IF td.Ignored THEN skip
        ELSE IF strVal # <<>> THEN coerceAndSet(field.Kind, strVal, olderr, variant)
        ELSE IF td.Default # <<>> THEN coerceAndSet(field.Kind, td.Default, olderr, variant)
        ELSE IF td.Required
        THEN [skip EXCEPT !.err = Join(olderr, MissingError(field.Name), variant)]
        ELSE skip

\* One iteration of the loop over the fields (lines 172-191):
\* [panic |-> the panic or "none", written |-> whether the field is set,
\*  val |-> the value it is set to, err |-> err after the iteration]
loadField(field, olderr, e, variant) ==
    LET derived == changeNameCase(field.Name)
        tag == parseTag(field.Tag)
        td == tag.td
        optionName == resolveName(td, derived)
        strVal == Getenv(e, optionName)
        skip == [panic |-> "none", written |-> FALSE, val |-> Nil, err |-> olderr]
    IN  IF tag.panic # "none"
        THEN [panic |-> tag.panic, written |-> FALSE, val |-> Nil, err |-> olderr]
        ELSE IF td.Ignored THEN skip
        ELSE IF strVal # <<>> THEN coerceAndSet(field.Kind, strVal, olderr, variant)
        ELSE IF td.Default # <<>> THEN coerceAndSet(field.Kind, td.Default, olderr, variant)
        ELSE IF td.Required
        THEN [skip EXCEPT !.err = Join(olderr, MissingError(field.Name), variant)]
        ELSE skip

(***************************************************************************)
(* The inputs of the model: strings, struct tags and struct types.         *)
(***************************************************************************)
\* a ; b as struct tags are written
Semi(a, b) == a \o <<";">> \o b

\* key=value
KeyVal(key, value) == key \o <<"=">> \o value

V15 == <<"1","5">>
V697 == <<"6",".","9","7">>
VYES == <<"Y","E","S">>
VNeg == <<"-","3",".","5","0">>
VFalse == <<"f","a","l","s","e">>
VHello == <<"h","e","l","l","o"," ","w","o","r","l","d">>
NbAz == <<"b","A","z">>
NoOF == <<"o","O","F">>

\* The values os.Setenv is called with: empty, an integer, a decimal, a word
RawValues == {<<>>, V15, V697, VYES}

\* The struct tags of the enumerated fields of a supported type
PlainTags ==
    { <<>>, StrRequired,
      KeyVal(StrDefault, V15), KeyVal(StrDefault, VNeg),
      Semi(StrRequired, KeyVal(StrDefault, VYES)),
      Semi(KeyVal(StrName, NbAz), KeyVal(StrDefault, V697)),
      Semi(KeyVal(StrName, <<>>), StrRequired) }

\* Struct tags that hold the property "-"
IgnoreTags ==
    { StrIgnore, Semi(StrRequired, StrIgnore),
      Semi(Semi(KeyVal(StrName, NbAz), StrIgnore), KeyVal(StrDefault, VYES)) }

\* Struct tags parseTag panics on
BadTags ==
    { <<"a","=","b","=","c">>,
      KeyVal(<<"b","o","g","u","s">>, V15),
      Semi(StrIgnore, KeyVal(StrDefault, <<"=">>)) }

\* The enumerated fields, but for their names: parseValue supports the kinds
\* string, int and float64
Templates ==
    [Kind : {"string", "int", "float64"}, Tag : PlainTags]
    \cup [Kind : {"int"}, Tag : IgnoreTags]
    \cup [Kind : {"bool"}, Tag : { <<>>, KeyVal(StrDefault, VFalse), KeyVal(StrName, NbAz) }]
    \cup [Kind : {"uint"}, Tag : { <<>>, StrIgnore, StrRequired, KeyVal(StrDefault, V15) }]
    \cup [Kind : {"string"}, Tag : BadTags]

\* The field declared beside an enumerated one: it fails or loads with the environment
Neighbour == [Kind |-> "int", Tag |-> StrRequired]

Named(name, template) == [Name |-> name, Kind |-> template.Kind, Tag |-> template.Tag]

NBaz == <<"b","a","z">>
NFooBar == <<"f","o","o","B","a","r">>

\* Structs of two fields: every enumerated field before and after the neighbour
PairStructs ==
    { <<Named(NBaz, t), Named(NFooBar, Neighbour)>> : t \in Templates }
    \cup { <<Named(NBaz, Neighbour), Named(NFooBar, t)>> : t \in Templates }

\* myConfig of ExampleLoad (src/parsenv_test.go:16-21)
ExampleConfig ==
    << [Name |-> <<"f","o","o">>, Kind |-> "string", Tag |-> StrRequired],
       [Name |-> <<"b","a","r">>, Kind |-> "int", Tag |-> KeyVal(StrDefault, V15)],
       [Name |-> NBaz, Kind |-> "float64",
        Tag |-> Semi(KeyVal(StrName, NbAz), KeyVal(StrDefault, V697))],
       [Name |-> <<"q","u","x">>, Kind |-> "bool", Tag |-> <<>>] >>

\* testConfig (src/parsenv_test.go:32-42) without foo, zab, rab and wou
testConfig ==
    << [Name |-> <<"b","a","r">>, Kind |-> "string", Tag |-> StrRequired],
       [Name |-> NBaz, Kind |-> "string", Tag |-> KeyVal(StrDefault, VHello)],
       [Name |-> <<"o","o","f">>, Kind |-> "string",
        Tag |-> Semi(KeyVal(StrName, NoOF), StrRequired)],
       [Name |-> <<"u","w","a">>, Kind |-> "int", Tag |-> <<>>],
       [Name |-> <<"e","e","w">>, Kind |-> "float64", Tag |-> <<>>] >>

\* A struct whose second field has a malformed tag that also holds `-`, after
\* a field that may fail and before fields that have a value to take
lateBadTag ==
    << [Name |-> <<"b","a","r">>, Kind |-> "int", Tag |-> StrRequired],
       [Name |-> NBaz, Kind |-> "string",
        Tag |-> Semi(StrIgnore, KeyVal(StrDefault, <<"=">>))],
       [Name |-> <<"e","e","w">>, Kind |-> "float64", Tag |-> KeyVal(StrDefault, V697)] >>

\* A struct whose first field is of an unsupported type and has a default,
\* and whose second field has a malformed tag
badTagAfterUint ==
    << [Name |-> <<"u","w","a">>, Kind |-> "uint", Tag |-> KeyVal(StrDefault, V15)],
       [Name |-> NBaz, Kind |-> "string", Tag |-> <<"a","=","b","=","c">>] >>

\* The struct types Load is called with
Structs == PairStructs \cup {ExampleConfig, testConfig, lateBadTag, badTagAfterUint}

\* The zero value of a kind
ZeroValue(kind) ==
    IF kind = "string" THEN [t |-> "string", v |-> <<>>]
    ELSE IF kind = "float64" THEN [t |-> "float64", v |-> <<0, 0>>]
    ELSE IF kind = "bool" THEN [t |-> "bool", v |-> FALSE]
    ELSE [t |-> kind, v |-> 0]

\* A value of a kind that is not its zero value, as a caller may have assigned it
OtherValue(kind) ==
    IF kind = "string" THEN [t |-> "string", v |-> <<"o","l","d">>]
    ELSE IF kind = "float64" THEN [t |-> "float64", v |-> <<25, 1>>]
    ELSE IF kind = "bool" THEN [t |-> "bool", v |-> TRUE]
    ELSE [t |-> kind, v |-> 7]

\* The names os.Setenv is called with: for every field the name derived from
\* the field's name and the name its tag gives, if any
EnvNames(fs) ==
    { changeNameCase(fs[i].Name) : i \in 1..Len(fs) }
    \cup { parseTag(fs[i].Tag).td.Name :
             i \in { j \in 1..Len(fs) : /\ parseTag(fs[j].Tag).panic = "none"
                                        /\ parseTag(fs[j].Tag).td.Name # <<>> } }

\* What Load may be passed: a pointer to the struct, the struct, a pointer to an int
Args == {"*struct", "struct", "*int"}

NoCall == [arg |-> "none"]

(***************************************************************************)
(* The program: a caller sets the environment, then calls Load on a struct *)
(* once or more.  A panic of Load ends the program.                        *)
(***************************************************************************)
Init ==
    /\ fields \in Structs
    /\ \E other \in BOOLEAN :
          cfg = [i \in 1..Len(fields) |->
                    IF other THEN OtherValue(fields[i].Kind) ELSE ZeroValue(fields[i].Kind)]
    /\ env = <<>>
    /\ goJoin \in {"wrap", "reuse"}
    /\ pc = "idle"
    /\ idx = 0
    /\ err = Nil
    /\ ret = Nil
    /\ calls = 0
    /\ setenvs = 0
    /\ cfg0 = cfg
    /\ arg = "none"
    /\ panicVal = "none"
    /\ prev = NoCall
    /\ input = <<>>
    /\ output = <<>>

\* os.Setenv(name, value), before the first call of Load
Setenv(name, value) ==
    /\ pc = "idle"
    /\ setenvs < MaxSetenv
    /\ env' = [n \in DOMAIN env \cup {name} |-> IF n = name THEN value ELSE env[n]]
    /\ setenvs' = setenvs + 1
    /\ UNCHANGED <<fields, cfg, goJoin, pc, idx, err, ret, calls, cfg0, arg, panicVal,
                   prev, input, output>>

\* Load(a) is entered (lines 165-170): anything but a pointer to a struct panics
LoadCall(a) ==
    /\ pc \in {"idle", "returned"}
    /\ calls < MaxCalls
    /\ prev' = IF calls = 0 THEN NoCall
               ELSE [arg |-> arg, pc |-> pc, idx |-> idx, cfg |-> cfg, ret |-> ret,
                     panicVal |-> panicVal]
    /\ calls' = calls + 1
    /\ arg' = a
    /\ cfg0' = cfg
    /\ err' = errAtEntry
    /\ ret' = Nil
    /\ IF a = "*struct"
       THEN pc' = "loop" /\ idx' = 1 /\ panicVal' = "none"
       ELSE pc' = "panicked" /\ idx' = 0 /\ panicVal' = "not a pointer to a struct"
    /\ UNCHANGED <<fields, cfg, env, goJoin, setenvs, input, output>>

\* One iteration of the loop over the fields (lines 171-192)
LoadField ==
    /\ pc = "loop"
    /\ idx <= Len(fields)
    /\ LET r == loadField(fields[idx], err, env, goJoin)
       IN  IF r.panic # "none"
           THEN /\ pc' = "panicked"
                /\ panicVal' = r.panic
                /\ UNCHANGED <<cfg, idx, err>>
           ELSE /\ cfg' = IF r.written THEN [cfg EXCEPT ![idx] = r.val] ELSE cfg
                /\ err' = r.err
                /\ idx' = idx + 1
                /\ UNCHANGED <<pc, panicVal>>
    /\ UNCHANGED <<fields, env, goJoin, ret, calls, setenvs, cfg0, arg, prev, input, output>>

\* return err (line 193)
LoadReturn ==
    /\ pc = "loop"
    /\ idx > Len(fields)
    /\ pc' = "returned"
    /\ ret' = err
    /\ UNCHANGED <<fields, cfg, env, goJoin, idx, err, calls, setenvs, cfg0, arg, panicVal,
                   prev, input, output>>

Next ==
    \/ /\ pc = "idle"
       /\ setenvs < MaxSetenv
       /\ \E name \in EnvNames(fields), value \in RawValues : Setenv(name, value)
    \/ \E a \in Args : LoadCall(a)
    \/ LoadField
    \/ LoadReturn

Spec == Init /\ [][Next]_vars

(***************************************************************************)
(* changeNameCase and parseTag on their own: the argument is drawn from a  *)
(* bounded set of strings and the function is applied to it.               *)
(***************************************************************************)
\* The three identifiers of TestCaseChange (src/parsenv_test.go:128-141)
TestIdents ==
    { <<"h","e","l","l","o","G","o","o","d","W","o","r","l","d">>,
      <<"H","e","l","l","o","G","e","n","t","l","e","M","o","o","n">>,
      <<"s","o","m","e","o","n","e","R","e","a","l","l","y","L","i","k","e","s","A","C","R","O","N","Y","M","S">> }

\* The runes of the enumerated identifiers: lower case, upper case, neither
IdentRunes == {"a", "z", "A", "Z", "1"}

\* The non-empty identifiers changeNameCase is applied to
Idents == TestIdents \cup UNION { [1..n -> IdentRunes] : n \in 1..MaxIdentLen }

\* The lexemes the enumerated struct tags are made of
TagChunks == { StrIgnore, StrRequired, StrName \o <<"=">>, StrDefault \o <<"=">>,
               <<"x">>, <<";">>, <<"=">> }

\* The concatenation of a sequence of strings
RECURSIVE Flatten(_)
Flatten(chunks) == IF chunks = <<>> THEN <<>> ELSE Head(chunks) \o Flatten(Tail(chunks))

\* The struct tags parseTag is applied to
Tags ==
    { t.Tag : t \in Templates }
    \cup { Flatten(c) : c \in UNION { [1..n -> TagChunks] : n \in 0..MaxTagChunks } }

\* The variables of Load, at rest while a pure function is checked
LoadAtRest ==
    /\ fields = <<>> /\ cfg = <<>> /\ env = <<>> /\ goJoin = "wrap"
    /\ idx = 0 /\ err = Nil /\ ret = Nil /\ calls = 0 /\ setenvs = 0
    /\ cfg0 = <<>> /\ arg = "none" /\ panicVal = "none" /\ prev = NoCall

InitCase == LoadAtRest /\ pc = "case" /\ input \in Idents /\ output = <<>>

\* output := changeNameCase(input)
CaseStep ==
    /\ pc = "case"
    /\ output' = changeNameCase(input)
    /\ pc' = "case done"
    /\ UNCHANGED <<fields, cfg, env, goJoin, idx, err, ret, calls, setenvs, cfg0, arg,
                   panicVal, prev, input>>

SpecCase == InitCase /\ [][CaseStep]_vars

InitTag == LoadAtRest /\ pc = "tag" /\ input \in Tags /\ output = <<>>

\* output := parseTag(input)
TagStep ==
    /\ pc = "tag"
    /\ output' = parseTag(input)
    /\ pc' = "tag done"
    /\ UNCHANGED <<fields, cfg, env, goJoin, idx, err, ret, calls, setenvs, cfg0, arg,
                   panicVal, prev, input>>

SpecTag == InitTag /\ [][TagStep]_vars

(***************************************************************************)
(* What the properties below speak of.                                     *)
(***************************************************************************)
\* The least and the greatest member of a non-empty set of numbers
Least(S) == CHOOSE m \in S : \A x \in S : m <= x
Greatest(S) == CHOOSE m \in S : \A x \in S : x <= m

\* How often x occurs in a sequence
Count(seq, x) == Cardinality({k \in DOMAIN seq : seq[k] = x})

\* The properties of a struct tag, each named by the position it starts at:
\* the pieces between the semicolons
SemiPos(tag) == {k \in 1..Len(tag) : tag[k] = ";"}
PropStarts(tag) == {1} \cup {k + 1 : k \in SemiPos(tag)}
PropAt(tag, st) ==
    LET later == {k \in SemiPos(tag) : k >= st}
    IN  SubSeq(tag, st, IF later = {} THEN Len(tag) ELSE Least(later) - 1)

\* The number of "=" in a property, and its two sides when there is one
NumEq(prop) == Cardinality({k \in 1..Len(prop) : prop[k] = "="})
KeyOf(prop) == SubSeq(prop, 1, Least({k \in 1..Len(prop) : prop[k] = "="}) - 1)
ValueOf(prop) == SubSeq(prop, Least({k \in 1..Len(prop) : prop[k] = "="}) + 1, Len(prop))

\* A property parseTag must refuse
BadProp(prop) ==
    \/ NumEq(prop) >= 2
    \/ NumEq(prop) = 1 /\ KeyOf(prop) \notin {StrName, StrDefault}

\* The text after the "=" of the last property with this key, "" without one
LastValue(tag, key) ==
    LET with == {st \in PropStarts(tag) :
                    NumEq(PropAt(tag, st)) = 1 /\ KeyOf(PropAt(tag, st)) = key}
    IN  IF with = {} THEN <<>> ELSE ValueOf(PropAt(tag, Greatest(with)))

\* C9: parseTag of the empty tag is the zero TagData.  Otherwise the tag is cut
\* at every ";" and each piece counts alone: a piece with two or more "=" is a
\* fatal invalid-format error, a piece with one "=" and a key other than name
\* and default a fatal unknown-property error (the first such piece decides);
\* without such a piece, Ignored and Required say whether a piece is exactly
\* "-" or "required", Name and Default are the text after the "=" of the last
\* name= and default= piece, and no other piece changes anything.
C9_parseTagGrammar ==
    pc = "tag done" =>
        IF input = <<>> THEN output = [panic |-> "none", td |-> ZeroTagData]
        ELSE LET bad == {st \in PropStarts(input) : BadProp(PropAt(input, st))}
             IN  IF bad # {}
                 THEN output.panic = IF NumEq(PropAt(input, Least(bad))) >= 2
                                     THEN "invalid format" ELSE "unknown property"
                 ELSE /\ output.panic = "none"
                      /\ output.td.Ignored =
                            (\E st \in PropStarts(input) : PropAt(input, st) = StrIgnore)
                      /\ output.td.Required =
                            (\E st \in PropStarts(input) : PropAt(input, st) = StrRequired)
                      /\ output.td.Name = LastValue(input, StrName)
                      /\ output.td.Default = LastValue(input, StrDefault)

\* A tag whose second name= overrides the first; its value "-" is no flag
C9_Witness ==
    /\ pc = "tag done"
    /\ input = <<"n","a","m","e","=","x",";","n","a","m","e","=","-">>
    /\ output = [panic |-> "none", td |-> [ZeroTagData EXCEPT !.Name = <<"-">>]]

\* The places of an identifier where a lower-case rune is followed by an upper-case one
Boundaries(s) == {i \in 1..(Len(s) - 1) : IsLower(s[i]) /\ IsUpper(s[i + 1])}

\* C10: changeNameCase of a non-empty identifier is the identifier with every
\* rune upper-cased, in order, and one "_" put between the runes i and i+1
\* exactly where rune i is lower case and rune i+1 upper case.
C10_changeNameCaseUnderscores ==
    pc = "case done" =>
        LET B == Boundaries(input)
            before(i) == Cardinality({b \in B : b < i})
        IN  /\ Len(output) = Len(input) + Cardinality(B)
            /\ \A i \in 1..Len(input) : output[i + before(i)] = ToUpper(input[i])
            /\ \A b \in B : output[b + before(b) + 1] = "_"

\* The identifier of the test that ends in a run of capitals
C10_Witness ==
    /\ pc = "case done"
    /\ input = <<"s","o","m","e","o","n","e","R","e","a","l","l","y","L","i","k","e","s","A","C","R","O","N","Y","M","S">>
    /\ output = <<"S","O","M","E","O","N","E","_","R","E","A","L","L","Y","_","L","I","K","E","S","_","A","C","R","O","N","Y","M","S">>

(***************************************************************************)
(* What the properties of Load speak of.  A field is "done" when the       *)
(* running (or last) call of Load has finished its iteration of the loop.  *)
(***************************************************************************)
FieldIds == 1..Len(fields)

Done(i) == i \in FieldIds /\ i < idx

\* The kinds parseValue has a case for
Supported(kind) == kind \in {"string", "int", "float64"}

\* parseTag, changeNameCase and parseValue tabulated over the tags, names,
\* kinds and strings of the model
AllFields == UNION { {s[i] : i \in 1..Len(s)} : s \in Structs }
TagTable == [t \in {f.Tag : f \in AllFields} |-> parseTag(t)]
NameTable == [n \in {f.Name : f \in AllFields} |-> changeNameCase(n)]
AllStrings ==
    (RawValues \cup {TagTable[t].td.Default : t \in DOMAIN TagTable}) \ {<<>>}
ValueTable == [k \in {f.Kind : f \in AllFields}, str \in AllStrings |-> parseValue(k, str)]

\* What the environment and the tag of a field say of it:
\*   wf       its tag is well formed
\*   td       its directive
\*   derived  the name derived from its declared name
\*   name     the name its value is looked up under: the override, if any
\*   rule     the first rule that applies if it is not ignored: 1 a non-empty
\*            environment value, 2 a non-empty default, 3 required, 4 nothing
\*   coerced  the coercion of the string rule 1 or 2 takes
\*   fails    it is required and missing, or its coercion fails
\*   own      the error of a failing field
FieldView(f) ==
    LET tag == TagTable[f.Tag]
        td == tag.td
        derived == NameTable[f.Name]
        name == IF td.Name # <<>> THEN td.Name ELSE derived
        value == Getenv(env, name)
        rule == IF value # <<>> THEN 1
                ELSE IF td.Default # <<>> THEN 2
                ELSE IF td.Required THEN 3
                ELSE 4
        coerced == IF rule \in {1, 2}
                   THEN ValueTable[f.Kind, IF rule = 1 THEN value ELSE td.Default]
                   ELSE [panic |-> FALSE, val |-> Nil, err |-> Nil]
    IN  [wf |-> tag.panic = "none", td |-> td, derived |-> derived, name |-> name,
         rule |-> rule, coerced |-> coerced,
         fails |-> /\ ~td.Ignored
                   /\ \/ rule = 3
                      \/ rule \in {1, 2} /\ ~coerced.panic /\ coerced.err # Nil,
         own |-> IF rule = 3 THEN MissingError(f.Name) ELSE coerced.err]

View == [i \in FieldIds |-> FieldView(fields[i])]

\* The errors a composite error holds at any depth, in order
RECURSIVE Leaves(_), LeavesOfAll(_)
LeavesOfAll(errs) ==
    IF errs = <<>> THEN <<>> ELSE Leaves(Head(errs)) \o LeavesOfAll(Tail(errs))
Leaves(e) ==
    IF e = Nil THEN <<>>
    ELSE IF e.kind = "joinError" THEN LeavesOfAll(e.errs)
    ELSE <<e>>

\* The failing fields among the first n, in declaration order
RECURSIVE FailingUpTo(_, _)
FailingUpTo(v, n) ==
    IF n = 0 THEN <<>>
    ELSE IF v[n].fails THEN Append(FailingUpTo(v, n - 1), n) ELSE FailingUpTo(v, n - 1)

C2_FailedCoercionKeepsValue ==
    LET v == View
        leaves == Leaves(err)
    IN  \A i \in FieldIds :
            (Done(i) /\ ~v[i].td.Ignored /\ v[i].rule \in {1, 2} /\ v[i].coerced.err # Nil) =>
                /\ Count(leaves, v[i].coerced.err) >= 1
                /\ cfg[i] = cfg0[i]

\* C3: Load returns nil exactly when no field failed; the error it returns
\* otherwise unwraps, once, to one entry per failing field, in declaration
\* order, each entry holding the error of its field and nothing else.
C3_UnwrapOnePerFailingField ==
    pc = "returned" =>
        LET v == View
            failing == FailingUpTo(v, Len(fields))
        IN  /\ (ret = Nil) <=> (failing = <<>>)
            /\ ret # Nil =>
                  /\ Len(Unwrap(ret)) = Len(failing)
                  /\ \A k \in 1..Len(failing) :
                        Leaves(Unwrap(ret)[k]) = <<v[failing[k]].own>>

\* C4: a field whose tag gives a name is resolved by the variable of exactly
\* that name: its value if it is not empty, else the default, else nothing;
\* what is set under the name derived from the field's name plays no part.
C4_OverrideNameOnly ==
    LET v == View
        leaves == Leaves(err)
    IN  \A i \in FieldIds :
            (Done(i) /\ v[i].td.Name # <<>> /\ ~v[i].td.Ignored) =>
                LET under == Getenv(env, v[i].td.Name)
                    src == IF under # <<>> THEN under ELSE v[i].td.Default
                    c == ValueTable[fields[i].Kind, src]
                IN  IF src = <<>> THEN cfg[i] = cfg0[i]
                    ELSE /\ ~c.panic
                         /\ c.err = Nil => cfg[i] = c.val
                         /\ c.err # Nil => Count(leaves, c.err) >= 1

\* baz float64 `cfg:"name=bAz;default=6.97"` with BAZ set and bAz not: 6.97
C4_Witness ==
    /\ pc = "returned"
    /\ \E i \in FieldIds :
          /\ fields[i].Kind = "float64"
          /\ View[i].td.Name = NbAz
          /\ NbAz \notin DOMAIN env
          /\ Getenv(env, View[i].derived) = V15
          /\ cfg[i] = [t |-> "float64", v |-> <<697, 2>>]
          /\ cfg[i] # cfg0[i]

\* A tag holds the property "-"
HasIgnore(tag) == \E st \in PropStarts(tag) : PropAt(tag, st) = StrIgnore

\* C5: the iteration of Load for a field whose tag holds "-" writes no field
\* and records no error, whatever the environment and the rest of the tag; and
\* no other iteration writes the field.
C5_IgnoredFieldUntouched ==
    /\ [](\A i \in FieldIds : HasIgnore(fields[i].Tag) => cfg[i] = cfg0[i])
    /\ [][(pc = "loop" /\ idx \in FieldIds /\ HasIgnore(fields[idx].Tag))
            => (cfg' = cfg /\ err' = err)]_vars

\* Load returned nil; it passed a field that is ignored, required, and whose
\* variable is set
C5_Witness ==
    /\ pc = "returned"
    /\ ret = Nil
    /\ \E i \in FieldIds :
          /\ HasIgnore(fields[i].Tag)
          /\ View[i].td.Required
          /\ Getenv(env, View[i].name) # <<>>
          /\ cfg[i] = cfg0[i]

\* The boolean a string stands for, as the tests expect it ("YES" is true)
BoolOf(str) == [t |-> "bool", v |-> str = VYES]

\* C6: Load does not abort at a bool field that takes a non-empty environment
\* value or a default, and sets it to the boolean the string stands for.
C6_BoolFieldsLoad ==
    LET v == View
    IN  \A i \in FieldIds :
            (fields[i].Kind = "bool" /\ v[i].wf /\ ~v[i].td.Ignored /\ v[i].rule \in {1, 2}) =>
                /\ ~(pc = "panicked" /\ idx = i)
                /\ Done(i) =>
                      cfg[i] = BoolOf(IF v[i].rule = 1 THEN Getenv(env, v[i].name)
                                      ELSE v[i].td.Default)

\* C7 as claimed: Load never returns when a field has a type outside the
\* supported set (uint is outside it on every reading).
C7_UnsupportedTypeAlwaysFatal ==
    pc = "returned" => \A i \in FieldIds : fields[i].Kind # "uint"

\* C7 as amended: Load aborts on a field of an unsupported type exactly when it
\* reaches the field, the field is not ignored and has a non-empty environment
\* value or default to coerce; a field of an unsupported type that is ignored
\* or has neither is passed like any other and keeps its value.
C7_UnsupportedTypeFatalWhenCoerced ==
    LET v == View
    IN  /\ \A i \in FieldIds :
              (Done(i) /\ ~Supported(fields[i].Kind)) =>
                  /\ v[i].td.Ignored \/ v[i].rule \in {3, 4}
                  /\ cfg[i] = cfg0[i]
        /\ (pc = "panicked" /\ panicVal = "unsupported type") =>
              /\ idx \in FieldIds
              /\ ~Supported(fields[idx].Kind)
              /\ ~v[idx].td.Ignored
              /\ v[idx].rule \in {1, 2}
        /\ (pc = "panicked" /\ idx \in FieldIds /\ v[idx].wf) =>
              panicVal = "unsupported type"

\* Load returned with a uint field that is ignored and whose variable is set,
\* or that has no value and no default
C7_Witness ==
    /\ pc = "returned"
    /\ \E i \in FieldIds :
          /\ fields[i].Kind = "uint"
          /\ \/ View[i].td.Ignored /\ Getenv(env, View[i].name) # <<>>
             \/ ~View[i].td.Ignored /\ View[i].rule = 4

\* C8: a second call of Load on the same struct, the environment unchanged,
\* returns as the first did, with every field as the first call left it and
\* the same error.
C8_LoadIdempotent ==
    (calls >= 2 /\ arg = "*struct") =>
        /\ pc # "panicked"
        /\ pc = "returned" => (cfg = prev.cfg /\ ret = prev.ret)

\* The second call returned an error; a field took its environment value and
\* the coercion of another failed
C8_Witness ==
    /\ calls = 2
    /\ pc = "returned"
    /\ ret # Nil
    /\ \E i, j \in FieldIds :
          /\ View[i].rule = 1 /\ View[i].coerced.err = Nil /\ cfg[i] = View[i].coerced.val
          /\ View[j].rule = 1 /\ View[j].coerced.err # Nil

\* The first field, in declaration order, whose tag is malformed (0: none)
FirstBadTag ==
    LET bad == {i \in FieldIds : TagTable[fields[i].Tag].panic # "none"}
    IN  IF bad = {} THEN 0 ELSE Least(bad)

\* What Load leaves in field i when it passes it: the string coerced, if the
\* field takes one, and the value it had otherwise
Resolved(i) ==
    LET v == View[i]
    IN  IF ~v.td.Ignored /\ v.rule \in {1, 2} THEN v.coerced.val ELSE cfg0[i]

\* Load has aborted at field k on its tag: it returned no error, the fields
\* from k on have the value they had, the fields before k are resolved
AbortedAtTag(k) ==
    /\ pc = "panicked"
    /\ idx = k
    /\ panicVal = TagTable[fields[k].Tag].panic
    /\ ret = Nil
    /\ \A i \in FieldIds : cfg[i] = IF i < k THEN Resolved(i) ELSE cfg0[i]

\* C11 as claimed, k being the first field with a malformed tag and no bool
\* field standing before it: once Load, called on a pointer to the struct, is
\* over, it has aborted at field k on its tag.
C11_BadTagAlwaysAbortsAtK ==
    LET k == FirstBadTag
    IN  (/\ arg = "*struct"
         /\ pc \in {"returned", "panicked"}
         /\ k \in FieldIds
         /\ \A i \in 1..(k - 1) : fields[i].Kind # "bool") => AbortedAtTag(k)

\* C11 as amended: Load never passes a field whose tag is malformed, `-` in
\* the tag or not; when it reaches such a field k (no field before k aborted
\* it) it aborts there on the tag, writing nothing and returning no error, the
\* errors of the fields before k being dropped; the fields from k on then have
\* the value they had and the fields before k what Load resolved them to.
C11_BadTagAbortsWhenReached ==
    /\ [](\A k \in FieldIds :
            (arg = "*struct" /\ ~View[k].wf) =>
                /\ idx <= k
                /\ pc # "returned"
                /\ (pc = "panicked" /\ idx = k) => AbortedAtTag(k))
    /\ [][(pc = "loop" /\ idx \in FieldIds /\ ~View[idx].wf) =>
            /\ pc' = "panicked"
            /\ panicVal' = TagTable[fields[idx].Tag].panic
            /\ idx' = idx /\ cfg' = cfg /\ ret' = Nil]_vars

\* Load aborted at the second field, whose malformed tag holds `-`; the first
\* field had failed and its error is not returned; the third field has a
\* default and the value it had
C11_Witness ==
    /\ fields = lateBadTag
    /\ AbortedAtTag(2)
    /\ HasIgnore(fields[2].Tag)
    /\ View[1].fails /\ err # Nil
    /\ View[3].rule = 2 /\ cfg[3] = cfg0[3] /\ cfg[3] # View[3].coerced.val

====
